---------------------------- MODULE Spec2Model ----------------------------
(***************************************************************************)
(* Model of layer3_network_code.py: the LinuxRouter node (config /        *)
(* terminate), the topology declared by NetworkTopo.build, and run(),     *)
(* which builds the topology, hands it to the emulation engine, starts    *)
(* it, prints the addressing summary, probes all pairs and stops.         *)
(*                                                                         *)
(* The emulation engine (Mininet) and the kernel's IPv4 stack are not     *)
(* part of the repository.  They are modelled by what the script relies   *)
(* on: Node.config applies a node's parameters, Node.cmd runs a sysctl    *)
(* in the node's namespace, Node.terminate tears the node down (each of   *)
(* the three may raise, and the script catches nothing), and a            *)
(* packet is forwarded by longest-prefix match over connected routes and  *)
(* the default route, by a node other than its sender only when that      *)
(* node's net.ipv4.ip_forward is 1.                                       *)
(***************************************************************************)
EXTENDS Integers, Sequences, FiniteSets, TLC

(***************************************************************************)
(* Bounds of the model.                                                    *)
(***************************************************************************)
\* Calls a test harness makes on router objects (RouterSpec).
MaxCalls == 4
\* Hops a probe packet may take before it is discarded (the longest path
\* of the declared topology, host - router - router - host, has 3).
MaxHops == 4

(***************************************************************************)
(* Addresses.  '20.10.172.130/26' is the pair of a 32-bit address and a   *)
(* prefix length; an absent parameter is the empty set, a present one a   *)
(* singleton.                                                              *)
(***************************************************************************)
IP(a, b, c, d) == ((a * 256 + b) * 256 + c) * 256 + d

Cidr(a, b, c, d, p) == [addr |-> IP(a, b, c, d), plen |-> p]

HostBits(p) == 2 ^ (32 - p)

\* The network number of address x under prefix length p.
Net(x, p) == x \div HostBits(p)

NetworkAddr(x, p) == Net(x, p) * HostBits(p)

BroadcastAddr(x, p) == NetworkAddr(x, p) + HostBits(p) - 1

InSubnet(x, c) == Net(x, c.plen) = Net(c.addr, c.plen)

(***************************************************************************)
(* NetworkTopo.build: the calls it makes, in program order.               *)
(***************************************************************************)
AddNodeCall(n, c, i) ==
    [op |-> "addNode", name |-> n, cls |-> c, isSwitch |-> FALSE,
     ip |-> {i}, defaultRoute |-> {}]

AddSwitchCall(n) ==
    [op |-> "addNode", name |-> n, cls |-> "Switch", isSwitch |-> TRUE,
     ip |-> {}, defaultRoute |-> {}]

AddHostCall(n, i, via) ==
    [op |-> "addNode", name |-> n, cls |-> "Host", isSwitch |-> FALSE,
     ip |-> {i}, defaultRoute |-> {via}]

\* addLink(node1, node2, intfName2=..., params2={'ip': ...})
AddRouterLinkCall(n1, n2, intf, i) ==
    [op |-> "addLink", node1 |-> n1, node2 |-> n2, intfName2 |-> {intf},
     ip2 |-> {i}]

\* addLink(node1, node2)
AddLinkCall(n1, n2) ==
    [op |-> "addLink", node1 |-> n1, node2 |-> n2, intfName2 |-> {},
     ip2 |-> {}]

RouterDecls ==
    << AddNodeCall("rA", "LinuxRouter", Cidr(20, 10, 100, 1, 24)),
       AddNodeCall("rB", "LinuxRouter", Cidr(20, 10, 100, 2, 24)),
       AddNodeCall("rC", "LinuxRouter", Cidr(20, 10, 100, 3, 24)) >>

SwitchDecls ==
    << AddSwitchCall("s1"), AddSwitchCall("s2"), AddSwitchCall("s3"),
       AddSwitchCall("s4") >>

\* HostDecls with hB2 given the prefix length of another LAN.
HostDecls_WrongPrefix ==
    << AddHostCall("hA1", Cidr(20, 10, 172, 130, 26), IP(20, 10, 172, 129)),
       AddHostCall("hA2", Cidr(20, 10, 172, 131, 26), IP(20, 10, 172, 129)),
       AddHostCall("hB1", Cidr(20, 10, 172, 2, 25), IP(20, 10, 172, 1)),
       AddHostCall("hB2", Cidr(20, 10, 172, 3, 26), IP(20, 10, 172, 1)),
       AddHostCall("hC1", Cidr(20, 10, 172, 194, 27), IP(20, 10, 172, 193)),
       AddHostCall("hC2", Cidr(20, 10, 172, 195, 27), IP(20, 10, 172, 193)) >>

HostDecls ==
    << AddHostCall("hA1", Cidr(20, 10, 172, 130, 26), IP(20, 10, 172, 129)),
       AddHostCall("hA2", Cidr(20, 10, 172, 131, 26), IP(20, 10, 172, 129)),
       AddHostCall("hB1", Cidr(20, 10, 172, 2, 25), IP(20, 10, 172, 1)),
       AddHostCall("hB2", Cidr(20, 10, 172, 3, 25), IP(20, 10, 172, 1)),
       AddHostCall("hC1", Cidr(20, 10, 172, 194, 27), IP(20, 10, 172, 193)),
       AddHostCall("hC2", Cidr(20, 10, 172, 195, 27), IP(20, 10, 172, 193)) >>

BackboneLinkDecls ==
    << AddRouterLinkCall("s4", "rA", "rA-eth1", Cidr(20, 10, 100, 1, 24)),
       AddRouterLinkCall("s4", "rB", "rB-eth1", Cidr(20, 10, 100, 2, 24)),
       AddRouterLinkCall("s4", "rC", "rC-eth1", Cidr(20, 10, 100, 3, 24)) >>

\* LanRouterLinkDecls with routers A and B attached to each other's switch.
LanRouterLinkDecls_Swapped ==
    << AddRouterLinkCall("s2", "rA", "rA-eth0", Cidr(20, 10, 172, 129, 26)),
       AddRouterLinkCall("s1", "rB", "rB-eth0", Cidr(20, 10, 172, 1, 25)),
       AddRouterLinkCall("s3", "rC", "rC-eth0", Cidr(20, 10, 172, 193, 27)) >>

LanRouterLinkDecls ==
    << AddRouterLinkCall("s1", "rA", "rA-eth0", Cidr(20, 10, 172, 129, 26)),
       AddRouterLinkCall("s2", "rB", "rB-eth0", Cidr(20, 10, 172, 1, 25)),
       AddRouterLinkCall("s3", "rC", "rC-eth0", Cidr(20, 10, 172, 193, 27)) >>

\* HostLinkDecls with hA2 plugged into LAN B's switch.
HostLinkDecls_WrongSwitch ==
    << AddLinkCall("hA1", "s1"), AddLinkCall("hA2", "s2"),
       AddLinkCall("hB1", "s2"), AddLinkCall("hB2", "s2"),
       AddLinkCall("hC1", "s3"), AddLinkCall("hC2", "s3") >>

HostLinkDecls ==
    << AddLinkCall("hA1", "s1"), AddLinkCall("hA2", "s1"),
       AddLinkCall("hB1", "s2"), AddLinkCall("hB2", "s2"),
       AddLinkCall("hC1", "s3"), AddLinkCall("hC2", "s3") >>

\* BuildCalls with the host links declared before the hosts.
BuildCalls_LinksBeforeHosts ==
    RouterDecls \o SwitchDecls \o BackboneLinkDecls \o LanRouterLinkDecls
        \o HostLinkDecls \o HostDecls

BuildCalls ==
    RouterDecls \o SwitchDecls \o HostDecls \o BackboneLinkDecls
        \o LanRouterLinkDecls \o HostLinkDecls

\* The names the script gives its nodes.
RouterNames == {"rA", "rB", "rC"}

HostNames == {"hA1", "hA2", "hB1", "hB2", "hC1", "hC2"}

SwitchNames == {"s1", "s2", "s3", "s4"}

NodeNames == RouterNames \cup HostNames \cup SwitchNames

\* Every node the engine makes a Node object for (all but the switches).
EndNodes == RouterNames \cup HostNames


(***************************************************************************)
(* LinuxRouter: the statements of its two methods, in program order.      *)
(***************************************************************************)
SuperConfig == [stmt |-> "super.config", key |-> "", value |-> 0]

SuperTerminate == [stmt |-> "super.terminate", key |-> "", value |-> 0]

\* self.cmd('sysctl <key>=<value>')
Sysctl(k, v) == [stmt |-> "cmd", key |-> k, value |-> v]

\* config with the two statements in the other order.
LinuxRouterConfig_EnableFirst ==
    << Sysctl("net.ipv4.ip_forward", 1), SuperConfig >>

LinuxRouterConfig == << SuperConfig, Sysctl("net.ipv4.ip_forward", 1) >>

\* terminate without the sysctl.
LinuxRouterTerminate_NoDisable == << SuperTerminate >>

\* terminate issuing the sysctl twice.
LinuxRouterTerminate_DisableTwice ==
    << Sysctl("net.ipv4.ip_forward", 0), Sysctl("net.ipv4.ip_forward", 0),
       SuperTerminate >>

\* terminate with the two statements in the other order.
LinuxRouterTerminate_TeardownFirst ==
    << SuperTerminate, Sysctl("net.ipv4.ip_forward", 0) >>

LinuxRouterTerminate == << Sysctl("net.ipv4.ip_forward", 0), SuperTerminate >>

\* The plain Node of the engine: hosts are of this class.
NodeConfig == << SuperConfig >>

NodeTerminate == << SuperTerminate >>

MethodBody(cls, op) ==
    IF cls = "LinuxRouter"
    THEN IF op = "config" THEN LinuxRouterConfig ELSE LinuxRouterTerminate
    ELSE IF op = "config" THEN NodeConfig ELSE NodeTerminate

\* What a harness may pass to config(**params).
NoParams == [ip |-> {}, defaultRoute |-> {}]

ParamChoices ==
    { NoParams,
      [ip |-> {Cidr(20, 10, 100, 1, 24)}, defaultRoute |-> {}],
      [ip |-> {Cidr(20, 10, 172, 130, 26)},
       defaultRoute |-> {IP(20, 10, 172, 129)}] }

(***************************************************************************)
(* State.                                                                  *)
(***************************************************************************)
VARIABLES
    pc,          \* where run() is; "harness" when a harness drives routers
    trace,       \* the steps of run() completed so far, in order
    bidx,        \* calls of NetworkTopo.build made so far
    topoNames,   \* the names given to addNode/addSwitch/addHost, in order
    topoNodes,   \* the topology's nodes, in order of registration
    topoLinks,   \* the topology's links, in order of registration
    life,        \* per node object: "absent", "live" or "terminated"
    applied,     \* per node: the parameters base Node.config applied
    ip_forward,  \* per node namespace: net.ipv4.ip_forward
    events,      \* per node: calls, statements and outcomes, in order
    cur,         \* the method call in progress (none: the empty set)
    eidx,        \* the engine's position in its loop over the nodes
    callsMade,   \* calls the harness has made
    switchesUp,  \* the engine's switches are forwarding frames
    pingIdx,     \* the pair pingAll probes next
    pkt,         \* the probe packet in flight (none: the empty set)
    received     \* the pairs whose echo reply came back

topoVars == << bidx, topoNames, topoNodes, topoLinks >>

nodeVars == << life, applied, ip_forward, events, cur >>

probeVars == << switchesUp, pingIdx, pkt, received >>

vars ==
    << pc, trace, bidx, topoNames, topoNodes, topoLinks, life, applied,
       ip_forward, events, cur, eidx, callsMade, switchesUp, pingIdx, pkt,
       received >>

Ev(k, o, v) == [kind |-> k, op |-> o, value |-> v]

NodesInit ==
    /\ applied = [n \in EndNodes |-> {}]
    /\ ip_forward = [n \in EndNodes |-> 0]
    /\ events = [n \in EndNodes |-> << >>]
    /\ cur = {}
    /\ eidx = 0
    /\ callsMade = 0
    /\ switchesUp = FALSE
    /\ pingIdx = 1
    /\ pkt = {}
    /\ received = {}

TopoInit ==
    /\ bidx = 0
    /\ topoNames = << >>
    /\ topoNodes = << >>
    /\ topoLinks = << >>

\* run() is about to execute line 92; no node object exists yet.
Init ==
    /\ pc = "topo"
    /\ trace = << >>
    /\ TopoInit
    /\ life = [n \in EndNodes |-> "absent"]
    /\ NodesInit

\* A harness holds the three router objects, constructed and not configured.
RouterInit ==
    /\ pc = "harness"
    /\ trace = << >>
    /\ TopoInit
    /\ life = [n \in EndNodes |-> IF n \in RouterNames THEN "live" ELSE "absent"]
    /\ NodesInit

(***************************************************************************)
(* Topo.addNode / addSwitch / addHost / addLink, as build calls them.     *)
(***************************************************************************)
NodeIndex(nodes, name) == {i \in 1..Len(nodes) : nodes[i].name = name}

NodeRecord(c) ==
    [name |-> c.name, cls |-> c.cls, isSwitch |-> c.isSwitch, ip |-> c.ip,
     defaultRoute |-> c.defaultRoute]

\* A name registered twice keeps one entry, updated.
AddNode(nodes, c) ==
    IF NodeIndex(nodes, c.name) = {}
    THEN Append(nodes, NodeRecord(c))
    ELSE [i \in 1..Len(nodes) |->
            IF nodes[i].name = c.name THEN NodeRecord(c) ELSE nodes[i]]

IsSwitchIn(nodes, name) ==
    \E i \in NodeIndex(nodes, name) : nodes[i].isSwitch

LinksOf(links, name) ==
    {i \in 1..Len(links) : links[i].node1 = name \/ links[i].node2 = name}

\* The next free port of a node: ports count from 1 on a switch, from 0
\* elsewhere.
NewPort(nodes, links, name) ==
    Cardinality(LinksOf(links, name))
        + (IF IsSwitchIn(nodes, name) THEN 1 ELSE 0)

AddLink(nodes, links, c) ==
    Append(links,
           [node1 |-> c.node1, node2 |-> c.node2,
            port1 |-> NewPort(nodes, links, c.node1),
            port2 |-> NewPort(nodes, links, c.node2),
            intfName2 |-> c.intfName2, ip2 |-> c.ip2])

BuildDone(i) == i = Len(BuildCalls)

\* One addNode/addSwitch/addHost call of build (lines 33-56).
TopoAddNode ==
    /\ pc = "topo"
    /\ bidx < Len(BuildCalls)
    /\ BuildCalls[bidx + 1].op = "addNode"
    /\ topoNames' = Append(topoNames, BuildCalls[bidx + 1].name)
    /\ topoNodes' = AddNode(topoNodes, BuildCalls[bidx + 1])
    /\ bidx' = bidx + 1
    /\ pc' = IF BuildDone(bidx + 1) THEN "mininet" ELSE pc
    /\ trace' = IF BuildDone(bidx + 1) THEN Append(trace, "topo") ELSE trace
    /\ UNCHANGED << topoLinks, nodeVars, probeVars, eidx, callsMade >>

\* One addLink call of build (lines 58-87).
TopoAddLink ==
    /\ pc = "topo"
    /\ bidx < Len(BuildCalls)
    /\ BuildCalls[bidx + 1].op = "addLink"
    /\ topoLinks' = AddLink(topoNodes, topoLinks, BuildCalls[bidx + 1])
    /\ bidx' = bidx + 1
    /\ pc' = IF BuildDone(bidx + 1) THEN "mininet" ELSE pc
    /\ trace' = IF BuildDone(bidx + 1) THEN Append(trace, "topo") ELSE trace
    /\ UNCHANGED << topoNames, topoNodes, nodeVars, probeVars, eidx,
                    callsMade >>

(***************************************************************************)
(* Method calls on node objects.  A call runs the statements of its       *)
(* method one after the other; nothing else runs until it has returned or *)
(* raised (the script is single-threaded).                                 *)
(***************************************************************************)
TheCall == CHOOSE c \in cur : TRUE

CurStmt == TheCall.body[TheCall.i]

\* The call after its current statement returned: the next statement, or
\* the return of the method.
Advance ==
    IF TheCall.i < Len(TheCall.body)
    THEN {[TheCall EXCEPT !.i = TheCall.i + 1]}
    ELSE {}

Returned(n, op, evs) ==
    IF TheCall.i < Len(TheCall.body)
    THEN evs
    ELSE Append(evs, Ev("return", op, 0))

\* n.config(**p) or n.terminate() is entered, n an object of class cls.
Enter(n, cls, op, p) ==
    /\ cur = {}
    /\ cur' = {[node |-> n, op |-> op, params |-> p, i |-> 1,
                body |-> MethodBody(cls, op)]}
    /\ events' = [events EXCEPT ![n] = Append(@, Ev("call", op, 0))]
    /\ UNCHANGED << life, applied, ip_forward >>

\* An exception leaves run() uncaught; a harness catches it and goes on.
AfterRaise == IF pc = "harness" THEN pc ELSE "raised"

\* super().config(**params): the base class applies the parameters, or
\* raises.
ExecSuperConfig ==
    /\ cur # {}
    /\ CurStmt.stmt = "super.config"
    /\ \E ok \in BOOLEAN :
         LET n == TheCall.node
         IN  IF ok
             THEN /\ applied' = [applied EXCEPT ![n] = {TheCall.params}]
                  /\ events' = [events EXCEPT ![n] =
                        Returned(n, TheCall.op,
                                 Append(@, Ev("super", "config", 0)))]
                  /\ cur' = Advance
                  /\ pc' = pc
             ELSE /\ applied' = applied
                  /\ events' = [events EXCEPT ![n] =
                        Append(Append(@, Ev("super-raise", "config", 0)),
                               Ev("raise", TheCall.op, 0))]
                  /\ cur' = {}
                  /\ pc' = AfterRaise
    /\ UNCHANGED << life, ip_forward, trace, topoVars, probeVars, eidx,
                    callsMade >>

\* self.cmd('sysctl net.ipv4.ip_forward=v'): sets the flag of the node's
\* namespace and returns the command's output, or raises (the engine's
\* shell may be gone or the command may not run).  Neither method has a
\* handler: the exception ends the call, and the statements after the
\* command are not run.
ExecCmd ==
    /\ cur # {}
    /\ CurStmt.stmt = "cmd"
    /\ \E ok \in BOOLEAN :
         LET n == TheCall.node
         IN  IF ok
             THEN /\ ip_forward' = [ip_forward EXCEPT ![n] = CurStmt.value]
                  /\ events' = [events EXCEPT ![n] =
                        Returned(n, TheCall.op,
                                 Append(@, Ev("cmd", TheCall.op,
                                              CurStmt.value)))]
                  /\ cur' = Advance
                  /\ pc' = pc
             ELSE /\ ip_forward' = ip_forward
                  /\ events' = [events EXCEPT ![n] =
                        Append(Append(@, Ev("cmd-raise", TheCall.op,
                                            CurStmt.value)),
                               Ev("raise", TheCall.op, 0))]
                  /\ cur' = {}
                  /\ pc' = AfterRaise
    /\ UNCHANGED << life, applied, trace, topoVars, probeVars, eidx,
                    callsMade >>

\* super().terminate(): the base class tears the node down, or raises.
ExecSuperTerminate ==
    /\ cur # {}
    /\ CurStmt.stmt = "super.terminate"
    /\ \E ok \in BOOLEAN :
         LET n == TheCall.node
         IN  IF ok
             THEN /\ life' = [life EXCEPT ![n] = "terminated"]
                  /\ events' = [events EXCEPT ![n] =
                        Returned(n, TheCall.op,
                                 Append(@, Ev("super", "terminate", 0)))]
                  /\ cur' = Advance
                  /\ pc' = pc
             ELSE /\ life' = life
                  /\ events' = [events EXCEPT ![n] =
                        Append(Append(@, Ev("super-raise", "terminate", 0)),
                               Ev("raise", TheCall.op, 0))]
                  /\ cur' = {}
                  /\ pc' = AfterRaise
    /\ UNCHANGED << applied, ip_forward, trace, topoVars, probeVars, eidx,
                    callsMade >>

(***************************************************************************)
(* A harness calling config and terminate on the routers, in any order.   *)
(***************************************************************************)
HarnessConfig ==
    /\ pc = "harness"
    /\ callsMade < MaxCalls
    /\ \E n \in RouterNames, p \in ParamChoices : Enter(n, "LinuxRouter", "config", p)
    /\ callsMade' = callsMade + 1
    /\ UNCHANGED << pc, trace, topoVars, probeVars, eidx >>

HarnessTerminate ==
    /\ pc = "harness"
    /\ callsMade < MaxCalls
    /\ \E n \in RouterNames : Enter(n, "LinuxRouter", "terminate", NoParams)
    /\ callsMade' = callsMade + 1
    /\ UNCHANGED << pc, trace, topoVars, probeVars, eidx >>

RouterNext ==
    \/ HarnessConfig
    \/ HarnessTerminate
    \/ ExecSuperConfig
    \/ ExecCmd
    \/ ExecSuperTerminate

RouterSpec == RouterInit /\ [][RouterNext]_vars

(***************************************************************************)
(* The network the engine realizes from the topology.  An interface of a  *)
(* node is named by the index of its link in topoLinks.                   *)
(***************************************************************************)
TheNode(name) == topoNodes[CHOOSE i \in NodeIndex(topoNodes, name) : TRUE]

\* topo.hosts(): the nodes that are not switches, in order of registration.
EndNodeSeq == SelectSeq(topoNodes, LAMBDA r : ~r.isSwitch)

NodeParams(r) == [ip |-> r.ip, defaultRoute |-> r.defaultRoute]

PortOf(n, li) ==
    IF topoLinks[li].node2 = n THEN topoLinks[li].port2
    ELSE topoLinks[li].port1

PeerOf(n, li) ==
    IF topoLinks[li].node2 = n THEN topoLinks[li].node1
    ELSE topoLinks[li].node2

Intfs(n) == LinksOf(topoLinks, n)

\* Node.defaultIntf(): the interface with the lowest port number.
DefaultIntf(n) ==
    {li \in Intfs(n) : \A lj \in Intfs(n) : PortOf(n, li) <= PortOf(n, lj)}

\* The address a link declares for n's end (params2).
LinkIP(n, li) == IF topoLinks[li].node2 = n THEN topoLinks[li].ip2 ELSE {}

\* The address the topology declares for n's interface li: the node's own
\* ip parameter goes to its default interface, a link's to its interface.
DeclaredAddr(n, li) ==
    IF li \in DefaultIntf(n) /\ TheNode(n).ip # {}
    THEN TheNode(n).ip
    ELSE LinkIP(n, li)

\* The address interface li of n carries now: the link's, until the base
\* Node.config has put the ip parameter on the default interface.
IntfAddr(n, li) ==
    IF life[n] # "live" THEN {}
    ELSE IF li \in DefaultIntf(n) /\ \E p \in applied[n] : p.ip # {}
         THEN UNION {p.ip : p \in applied[n]}
         ELSE LinkIP(n, li)

LocalAddrs(n) == {c.addr : c \in UNION {IntfAddr(n, li) : li \in Intfs(n)}}

\* Node.IP(): the address of the default interface.
NodeIP(n) == {c.addr : c \in UNION {IntfAddr(n, li) : li \in DefaultIntf(n)}}

\* The interfaces of n whose connected subnet holds x.
Connected(n, x) ==
    {li \in Intfs(n) : \E c \in IntfAddr(n, li) : InSubnet(x, c)}

PrefixLen(n, li) == (CHOOSE c \in IntfAddr(n, li) : TRUE).plen

\* Longest prefix first, then the lowest interface.
BestOf(n, S) ==
    CHOOSE li \in S :
        \A lj \in S :
            \/ PrefixLen(n, li) > PrefixLen(n, lj)
            \/ PrefixLen(n, li) = PrefixLen(n, lj) /\ li <= lj

\* The default route of n, installed by the base Node.config only when its
\* next hop is on a connected subnet.
Gateway(n) ==
    {g \in UNION {p.defaultRoute : p \in applied[n]} : Connected(n, g) # {}}

\* n's route to x: the outgoing interface and the next hop (none: {}).
Route(n, x) ==
    IF Connected(n, x) # {}
    THEN {[out |-> BestOf(n, Connected(n, x)), nh |-> x]}
    ELSE {[out |-> BestOf(n, Connected(n, g)), nh |-> g] : g \in Gateway(n)}

\* The nodes that take a frame n sends on interface li to next hop x: the
\* owners of x on the same switch, while the switches run.
Receivers(n, li, x) ==
    {m \in EndNodes \ {n} :
        \E lj \in Intfs(m) :
            /\ \E c \in IntfAddr(m, lj) : c.addr = x
            /\ \/ lj = li
               \/ /\ PeerOf(m, lj) = PeerOf(n, li)
                  /\ IsSwitchIn(topoNodes, PeerOf(n, li))
                  /\ switchesUp}

\* The packet p as node m receives it.
Hop(p, m) == [p EXCEPT !.at = m, !.hops = p.hops + 1]

\* Where the node holding p sends it next (nowhere: {}).  A node relays a
\* packet it did not send only with ip_forward = 1.
NextHolders(p) ==
    IF /\ p.src \in LocalAddrs(p.at) \/ ip_forward[p.at] = 1
       /\ p.hops < MaxHops
    THEN UNION {Receivers(p.at, r.out, r.nh) : r \in Route(p.at, p.dst)}
    ELSE {}

(***************************************************************************)
(* run(), lines 93-117.                                                   *)
(***************************************************************************)
\* Mininet(topo=topo): the engine makes a node object per non-switch node.
MininetCreate ==
    /\ pc = "mininet"
    /\ eidx = 0
    /\ life' = [n \in EndNodes |->
                  IF \E i \in 1..Len(EndNodeSeq) : EndNodeSeq[i].name = n
                  THEN "live" ELSE life[n]]
    /\ eidx' = 1
    /\ UNCHANGED << pc, trace, topoVars, applied, ip_forward, events, cur,
                    probeVars, callsMade >>

\* ... and calls config(**params) on each, with the node's parameters.
EngineConfig ==
    /\ pc = "mininet"
    /\ eidx \in 1..Len(EndNodeSeq)
    /\ Enter(EndNodeSeq[eidx].name, EndNodeSeq[eidx].cls, "config",
             NodeParams(EndNodeSeq[eidx]))
    /\ eidx' = eidx + 1
    /\ UNCHANGED << pc, trace, topoVars, probeVars, callsMade >>

MininetDone ==
    /\ pc = "mininet"
    /\ cur = {}
    /\ eidx = Len(EndNodeSeq) + 1
    /\ pc' = "start"
    /\ trace' = Append(trace, "mininet")
    /\ UNCHANGED << topoVars, nodeVars, probeVars, eidx, callsMade >>

\* net.start(), line 96.
Start ==
    /\ pc = "start"
    /\ switchesUp' = TRUE
    /\ pc' = "summary"
    /\ trace' = Append(trace, "start")
    /\ UNCHANGED << topoVars, nodeVars, pingIdx, pkt, received, eidx,
                    callsMade >>

\* The addressing summary, lines 98-111.
Summary ==
    /\ pc = "summary"
    /\ pc' = "pingAll"
    /\ trace' = Append(trace, "summary")
    /\ UNCHANGED << topoVars, nodeVars, probeVars, eidx, callsMade >>

\* net.pingAll(), line 114: every ordered pair of distinct nodes of
\* topo.hosts(), the k-th pair being PingPair(k).
NumPairs == Len(EndNodeSeq) * (Len(EndNodeSeq) - 1)

PingPair(k) ==
    LET n == Len(EndNodeSeq)
        si == ((k - 1) \div (n - 1)) + 1
        j == ((k - 1) % (n - 1)) + 1
        di == IF j < si THEN j ELSE j + 1
    IN  << EndNodeSeq[si].name, EndNodeSeq[di].name >>

\* The echo request of the pair, at its sender (none without a route).
Request(s, d) ==
    {[at |-> s, src |-> (CHOOSE c \in IntfAddr(s, r.out) : TRUE).addr,
      dst |-> x, kind |-> "request", hops |-> 0] :
        r \in UNION {Route(s, x) : x \in NodeIP(d)}, x \in NodeIP(d)}

PingSend ==
    /\ pc = "pingAll"
    /\ pkt = {}
    /\ pingIdx <= NumPairs
    /\ LET s == PingPair(pingIdx)[1]
           d == PingPair(pingIdx)[2]
       IN  IF Request(s, d) = {}
           THEN /\ pkt' = {}
                /\ pingIdx' = pingIdx + 1
           ELSE /\ pkt' = Request(s, d)
                /\ pingIdx' = pingIdx
    /\ UNCHANGED << pc, trace, topoVars, nodeVars, switchesUp, received,
                    eidx, callsMade >>

ThePkt == CHOOSE p \in pkt : TRUE

PacketForward ==
    /\ pkt # {}
    /\ ThePkt.dst \notin LocalAddrs(ThePkt.at)
    /\ \E m \in NextHolders(ThePkt) : pkt' = {Hop(ThePkt, m)}
    /\ UNCHANGED << pc, trace, topoVars, nodeVars, switchesUp, pingIdx,
                    received, eidx, callsMade >>

\* No route, no owner of the next hop, or a node that does not forward:
\* the probe of this pair has failed.
PacketDrop ==
    /\ pkt # {}
    /\ ThePkt.dst \notin LocalAddrs(ThePkt.at)
    /\ NextHolders(ThePkt) = {}
    /\ pkt' = {}
    /\ pingIdx' = pingIdx + 1
    /\ UNCHANGED << pc, trace, topoVars, nodeVars, switchesUp, received,
                    eidx, callsMade >>

\* The request reaches its target, which answers; or the reply reaches the
\* sender, and the pair is counted as received.
PacketDeliver ==
    /\ pkt # {}
    /\ ThePkt.dst \in LocalAddrs(ThePkt.at)
    /\ IF ThePkt.kind = "request"
       THEN /\ pkt' = {[at |-> ThePkt.at, src |-> ThePkt.dst,
                        dst |-> ThePkt.src, kind |-> "reply", hops |-> 0]}
            /\ UNCHANGED << pingIdx, received >>
       ELSE /\ pkt' = {}
            /\ received' = received \cup {PingPair(pingIdx)}
            /\ pingIdx' = pingIdx + 1
    /\ UNCHANGED << pc, trace, topoVars, nodeVars, switchesUp, eidx,
                    callsMade >>

\* run() going on to stop only when the probe lost nothing.
AfterProbe_Gated(lost) == IF lost = 0 THEN "stop" ELSE "raised"

\* What run() does with the number of pairs pingAll reports lost: nothing.
AfterProbe(lost) == "stop"

PingAllDone ==
    /\ pc = "pingAll"
    /\ pkt = {}
    /\ pingIdx = NumPairs + 1
    /\ pc' = AfterProbe(NumPairs - Cardinality(received))
    /\ trace' = Append(trace, "pingAll")
    /\ eidx' = 1
    /\ UNCHANGED << topoVars, nodeVars, probeVars, callsMade >>

\* net.stop(), line 117: the engine calls terminate() on each node object.
EngineTerminate ==
    /\ pc = "stop"
    /\ eidx \in 1..Len(EndNodeSeq)
    /\ Enter(EndNodeSeq[eidx].name, EndNodeSeq[eidx].cls, "terminate",
             NoParams)
    /\ eidx' = eidx + 1
    /\ UNCHANGED << pc, trace, topoVars, probeVars, callsMade >>

StopDone ==
    /\ pc = "stop"
    /\ cur = {}
    /\ eidx = Len(EndNodeSeq) + 1
    /\ switchesUp' = FALSE
    /\ pc' = "done"
    /\ trace' = Append(trace, "stop")
    /\ UNCHANGED << topoVars, nodeVars, pingIdx, pkt, received, eidx,
                    callsMade >>

Next ==
    \/ TopoAddNode
    \/ TopoAddLink
    \/ MininetCreate
    \/ EngineConfig
    \/ MininetDone
    \/ ExecSuperConfig
    \/ ExecCmd
    \/ ExecSuperTerminate
    \/ Start
    \/ Summary
    \/ PingSend
    \/ PacketForward
    \/ PacketDrop
    \/ PacketDeliver
    \/ PingAllDone
    \/ EngineTerminate
    \/ StopDone

Spec == Init /\ [][Next]_vars

(***************************************************************************)
(* Vocabulary of the properties.                                           *)
(***************************************************************************)
Count(e, P(_)) == Cardinality({i \in 1..Len(e) : P(e[i])})

\* The enable command returned.
IsEnable(x) == x.kind = "cmd" /\ x.value = 1

\* The enable command was issued (it returned or raised).
IsEnableAttempt(x) == x.kind \in {"cmd", "cmd-raise"} /\ x.value = 1

\* The disable command was issued (it returned or raised).
IsDisable(x) == x.kind \in {"cmd", "cmd-raise"} /\ x.value = 0

IsEngineRaise(x) == x.kind \in {"super-raise", "cmd-raise"}

IsEnd(x) == x.kind \in {"return", "raise"}

\* The last call on the node has ended, and it was a terminate() that
\* returned.
TerminateReturnedLast(e) ==
    Len(e) > 0 /\ e[Len(e)] = Ev("return", "terminate", 0)

\* ... and the call before it was a config() that returned.
ConfigThenTerminate(e) ==
    /\ TerminateReturnedLast(e)
    /\ \E j \in 1..(Len(e) - 1) :
         /\ e[j] = Ev("return", "config", 0)
         /\ \A k \in (j + 1)..(Len(e) - 1) : ~IsEnd(e[k])

NoConfigSucceeded(e) == \A i \in 1..Len(e) : e[i] # Ev("return", "config", 0)

CallOn(n) == \E c \in cur : c.node = n

RunOrder == << "topo", "mininet", "start", "summary", "pingAll", "stop" >>

IsPrefix(s, t) == Len(s) <= Len(t) /\ \A i \in 1..Len(s) : s[i] = t[i]

ProbeOver == pc \in {"stop", "done"}

TopoBuilt == pc \notin {"topo", "harness"}

\* The switch a host is attached to.
SwitchesOf(n) ==
    {PeerOf(n, li) : li \in Intfs(n)} \cap SwitchNames

SameLan(a, b) == SwitchesOf(a) \cap SwitchesOf(b) # {}

\* The addressed endpoints attached to switch sw, each with its address.
DeclaredCidrs ==
    UNION {topoNodes[i].ip : i \in 1..Len(topoNodes)}
        \cup UNION {topoLinks[i].ip2 : i \in 1..Len(topoLinks)}

EndpointsOn(sw) ==
    {<< n, li, c >> \in EndNodes \X (1..Len(topoLinks)) \X DeclaredCidrs :
        /\ li \in Intfs(n)
        /\ PeerOf(n, li) = sw
        /\ c \in DeclaredAddr(n, li)}

AllEndpoints == UNION {EndpointsOn(sw) : sw \in SwitchNames}

SegmentPlan ==
    [s1 |-> Cidr(20, 10, 172, 128, 26), s2 |-> Cidr(20, 10, 172, 0, 25),
     s3 |-> Cidr(20, 10, 172, 192, 27), s4 |-> Cidr(20, 10, 100, 0, 24)]

RoutersOn(sw) ==
    {n \in EndNodes : TheNode(n).cls = "LinuxRouter" /\ sw \in SwitchesOf(n)}

(***************************************************************************)
(* C1.  In every call of LinuxRouter.config, ip_forward=1 is issued only  *)
(* directly after the base Node.config has returned; a base configuration *)
(* that raises ends the call, with no enable command issued by it.        *)
(***************************************************************************)
C1_EnableOnlyAfterBaseConfig ==
    /\ \A c \in cur :
         c.op = "config" /\ c.body[c.i].stmt = "cmd" =>
             applied[c.node] = {c.params}
    /\ \A n \in RouterNames :
        \A i \in 1..Len(events[n]) :
            /\ IsEnableAttempt(events[n][i]) =>
                 /\ i > 1
                 /\ events[n][i - 1] = Ev("super", "config", 0)
            /\ events[n][i] = Ev("super-raise", "config", 0) =>
                 /\ i > 1
                 /\ i < Len(events[n])
                 /\ events[n][i + 1] = Ev("raise", "config", 0)
                 /\ events[n][i - 1] = Ev("call", "config", 0)

C1_Witness ==
    \E n \in RouterNames :
        /\ \E i \in 1..Len(events[n]) : IsEnable(events[n][i])
        /\ \E i \in 1..Len(events[n]) :
             events[n][i] = Ev("super-raise", "config", 0)
        /\ ip_forward[n] = 1

(***************************************************************************)
(* C2.  config() that returned, followed by terminate(), leaves the       *)
(* router's ip_forward at 0, its value before any activation, whatever    *)
(* parameters config() was given.                                          *)
(***************************************************************************)
C2_ConfigThenTerminateDisabled ==
    \A n \in RouterNames :
        ConfigThenTerminate(events[n]) /\ ~CallOn(n) => ip_forward[n] = 0

C2_Witness ==
    \E n \in RouterNames :
        /\ ConfigThenTerminate(events[n])
        /\ ~CallOn(n)
        /\ \E p \in applied[n] : p.ip # {} /\ p.defaultRoute # {}

(***************************************************************************)
(* C3 as stated: terminate() on a router whose config() was never called, *)
(* or raised before enabling forwarding, never raises, and having ended   *)
(* it leaves ip_forward at 0.  terminate() has no handler (lines 25-26):  *)
(* an exception of the sysctl command or of the base teardown leaves it.  *)
(***************************************************************************)
C3_TerminateWithoutConfigSafe ==
    \A n \in RouterNames :
        NoConfigSucceeded(events[n]) =>
            /\ \A i \in 1..Len(events[n]) :
                 events[n][i] # Ev("raise", "terminate", 0)
            /\ TerminateReturnedLast(events[n]) => ip_forward[n] = 0

(***************************************************************************)
(* C4 as stated: after a terminate() has returned, the disable command    *)
(* has been attempted as many times as config() has returned.             *)
(***************************************************************************)
C4_DisablePerSuccessfulConfig ==
    \A n \in RouterNames :
        TerminateReturnedLast(events[n]) /\ ~CallOn(n) =>
            Count(events[n], IsDisable)
                = Count(events[n], LAMBDA x : x = Ev("return", "config", 0))

(***************************************************************************)
(* C4 amended.  The disable command is attempted exactly once per         *)
(* terminate() call, whether or not a config() succeeded before: between  *)
(* calls the number of attempts equals the number of terminate() calls.   *)
(***************************************************************************)
C4_DisablePerTerminate ==
    \A n \in RouterNames :
        LET disables == Count(events[n], IsDisable)
            calls == Count(events[n],
                           LAMBDA x : x = Ev("call", "terminate", 0))
        IN  /\ ~CallOn(n) => disables = calls
            /\ disables <= calls
            /\ calls <= disables + 1

C4_Witness ==
    \E n \in RouterNames :
        /\ ~CallOn(n)
        /\ Count(events[n], IsDisable) = 2
        /\ Count(events[n], LAMBDA x : x = Ev("return", "config", 0)) = 1

(***************************************************************************)
(* C5 as stated: after the probe, every ordered pair of the six hosts     *)
(* has been received.                                                      *)
(***************************************************************************)
C5_AllHostPairsReachable ==
    ProbeOver =>
        \A a \in HostNames, b \in HostNames :
            a # b => << a, b >> \in received

(***************************************************************************)
(* C5 amended.  After the probe, an ordered pair of the six hosts has     *)
(* been received exactly when the two hosts are on the same LAN switch:   *)
(* the routers forward, but none has a route to another LAN's subnet, so  *)
(* the 24 pairs across LANs fail and the 6 pairs within a LAN succeed.    *)
(***************************************************************************)
C5_SameLanPairsReachable ==
    ProbeOver =>
        /\ \A a \in HostNames, b \in HostNames :
             a # b => (<< a, b >> \in received <=> SameLan(a, b))
        /\ Cardinality(received \cap (HostNames \X HostNames)) = 6

C5_Witness ==
    /\ pc = "stop"
    /\ << "hA1", "hA2" >> \in received
    /\ << "hA1", "hB1" >> \notin received
    /\ \A r \in RouterNames : ip_forward[r] = 1

(***************************************************************************)
(* C6.  run() completes its steps once each and in the order topology,    *)
(* engine, start, summary, pingAll, stop; it goes on to stop whatever     *)
(* the probe lost, and unless the engine raised it does not stop short    *)
(* of the stopped state.                                                   *)
(***************************************************************************)
C6_RunOrder ==
    pc # "harness" =>
        /\ IsPrefix(trace, RunOrder)
        /\ pc = "done" <=> trace = RunOrder
        /\ pc = "done" => ~switchesUp /\ \A n \in EndNodes : life[n] = "terminated"
        /\ ProbeOver => Len(trace) >= 5 /\ pingIdx = NumPairs + 1
        /\ pc = "raised" =>
             \E n \in EndNodes : \E i \in 1..Len(events[n]) :
                 IsEngineRaise(events[n][i])
        /\ pc \notin {"done", "raised"} => ENABLED Next

C6_Witness ==
    /\ pc = "done"
    /\ trace = RunOrder
    /\ Cardinality(received) < NumPairs

(***************************************************************************)
(* C7.  The names build registers are pairwise distinct, 13 in all, and   *)
(* at every point of build both ends of every registered link are names   *)
(* already registered.                                                     *)
(***************************************************************************)
C7_NamesDistinctLinksDeclared ==
    pc # "harness" =>
        /\ \A i, j \in 1..Len(topoNames) :
             i # j => topoNames[i] # topoNames[j]
        /\ \A i \in 1..Len(topoLinks) :
             \A e \in {topoLinks[i].node1, topoLinks[i].node2} :
                 \E j \in 1..Len(topoNames) : topoNames[j] = e
        /\ TopoBuilt =>
             /\ {topoNames[i] : i \in 1..Len(topoNames)} = NodeNames
             /\ Len(topoNames) = Cardinality(NodeNames)
             /\ Len(topoNodes) = Len(topoNames)
             /\ Len(topoLinks) = Len(BuildCalls) - Len(topoNames)

C7_Witness ==
    /\ pc = "mininet"
    /\ Len(topoNames) = Cardinality(NodeNames)
    /\ Len(topoLinks) > Cardinality(HostNames)

(***************************************************************************)
(* C8.  In the built topology the addresses of the endpoints on each      *)
(* switch share the prefix length and network of that segment's plan,     *)
(* none is the network or broadcast address of its subnet, and no two     *)
(* endpoints of the topology carry the same address.                      *)
(***************************************************************************)
C8_SubnetsConsistent ==
    TopoBuilt =>
        /\ \A sw \in SwitchNames :
             \A ep \in EndpointsOn(sw) :
                 /\ ep[3].plen = SegmentPlan[sw].plen
                 /\ NetworkAddr(ep[3].addr, ep[3].plen) = SegmentPlan[sw].addr
                 /\ ep[3].addr # NetworkAddr(ep[3].addr, ep[3].plen)
                 /\ ep[3].addr # BroadcastAddr(ep[3].addr, ep[3].plen)
        /\ \A e1 \in AllEndpoints, e2 \in AllEndpoints :
             e1[3].addr = e2[3].addr => e1 = e2
        /\ \A n \in EndNodes : \A li \in Intfs(n) : DeclaredAddr(n, li) # {}

C8_Witness ==
    /\ pc = "mininet"
    /\ \A sw \in SwitchNames : Cardinality(EndpointsOn(sw)) = 3
    /\ Cardinality(AllEndpoints) = 12

(***************************************************************************)
(* C9.  In the built topology every host's default route points at the    *)
(* address of an interface of a LinuxRouter attached to the host's own    *)
(* switch, that address is inside the host's subnet, and each of s1, s2,  *)
(* s3 has exactly one LinuxRouter attached.                                *)
(***************************************************************************)
C9_GatewayIsLanRouter ==
    TopoBuilt =>
        /\ \A h \in HostNames :
             /\ TheNode(h).defaultRoute # {}
             /\ \A g \in TheNode(h).defaultRoute :
                  /\ \E sw \in SwitchesOf(h) : \E ep \in EndpointsOn(sw) :
                       /\ ep[1] \in RoutersOn(sw)
                       /\ ep[3].addr = g
                  /\ \A c \in TheNode(h).ip : InSubnet(g, c)
        /\ \A sw \in {"s1", "s2", "s3"} : Cardinality(RoutersOn(sw)) = 1

C9_Witness ==
    /\ pc = "mininet"
    /\ \A h \in HostNames : Cardinality(SwitchesOf(h)) = 1
    /\ RoutersOn("s4") = RouterNames

(***************************************************************************)
(* C10.  In every call of LinuxRouter.terminate, ip_forward=0 is issued   *)
(* first, before the base Node.terminate of that call, and once the       *)
(* command has returned the base teardown is what runs next.              *)
(***************************************************************************)
C10_DisableBeforeBaseTerminate ==
    \A n \in RouterNames :
        /\ \A i \in 1..Len(events[n]) :
             /\ IsDisable(events[n][i]) /\ events[n][i].op = "terminate" =>
                  /\ i > 1
                  /\ events[n][i - 1] = Ev("call", "terminate", 0)
             /\ events[n][i] = Ev("cmd", "terminate", 0) /\ i < Len(events[n]) =>
                  events[n][i + 1] \in {Ev("super", "terminate", 0),
                                        Ev("super-raise", "terminate", 0)}
             /\ events[n][i].kind \in {"super", "super-raise"}
                  /\ events[n][i].op = "terminate" =>
                  /\ i > 1
                  /\ events[n][i - 1] = Ev("cmd", "terminate", 0)
             /\ events[n][i] = Ev("return", "terminate", 0) =>
                  /\ i > 1
                  /\ events[n][i - 1] = Ev("super", "terminate", 0)
        /\ Len(events[n]) > 0
             /\ events[n][Len(events[n])] = Ev("cmd", "terminate", 0) =>
                  ENABLED ExecSuperTerminate

C10_Witness ==
    \E n \in RouterNames :
        /\ TerminateReturnedLast(events[n])
        /\ life[n] = "terminated"
        /\ \E i \in 1..Len(events[n]) : IsEnable(events[n][i])

=============================================================================
